---- MODULE Spec2Model ----
(***************************************************************************)
(* Process lifecycle and open-file core of the frostbite kernel:           *)
(* process table, scheduler, sleep/wake_up, fork/exec/exit/wait/kill       *)
(* (src/process/process.c) and open_file/close_file (src/fs/file.c).       *)
(*                                                                         *)
(* The kernel is non-preemptible, so one action is one kernel entry run    *)
(* up to its return to user mode or to the context switch in schedule().   *)
(* A process switched out inside sleep() keeps its kernel position in the  *)
(* field kpc and continues from there in the action Resume.                *)
(***************************************************************************)
EXTENDS Integers, Sequences, FiniteSets, TLC

\* ---------------------------------------------------------------- bounds
PROC_TABLE_SIZE == 4      \* slots of process_table (slot 0 is the idle process)
MAX_OPEN_FILES == 2       \* width of a process's fd_table
FILE_TABLE_SIZE == 2      \* entries of global_file_table
ROOT_ENTRY_COUNT == 1     \* files in the root directory = inode_table entries
MaxPid == 3               \* fork is not attempted once pid_num exceeds this
MaxSteps == 3             \* system calls in one run of Spec
MaxProcSteps == 5         \* system calls in one run of SpecProc
MaxFileSteps == 4         \* system calls in one run of SpecFile
MaxReapSteps == 4         \* system calls in one run of SpecReap
MaxLeakSteps == 5         \* system calls in one run of SpecLeak
MaxSigSteps == 4          \* system calls in one run of SpecSig
MaxDownSteps == 4         \* system calls in one run of SpecDown
MaxTurnSteps == 5
MaxCallSteps == 4
MaxFdSteps == 5
MaxIntrSteps == 4
MaxHupSteps == 6         \* system calls in one run of SpecHup
MaxWakeSteps == 5        \* system calls in one run of SpecWake
MaxKillSteps == 4        \* system calls in one run of SpecKill
MaxForkSteps == 4        \* system calls in one run of SpecFork
MaxFgSteps == 7          \* system calls in one run of SpecFg
MaxExecSteps == 4        \* system calls in one run of SpecExec
MaxZombieSteps == 4      \* system calls of the processes other than init's wait loop in one run of SpecZombie

\* ------------------------------------------------------------- constants
NULL == -1                \* the null pointer (slot, file entry or inode index)
NONE == 0                 \* event: not sleeping
ZOMBIE_CLEANUP == -2      \* event: sleeping in wait
FG_PAUSED == -3           \* event: paused while another process is foreground
DEV_EVENT == -4           \* event: any other sleep reason (timer, keyboard)
SIGHUP == 1
SIGTERM == 15
SIGCHLD == 17
WNOHANG == 1
TOTAL_SIGNALS == 32       \* signal numbers are 0 .. TOTAL_SIGNALS - 1

Slots == 0 .. (PROC_TABLE_SIZE - 1)
UserSlots == 1 .. (PROC_TABLE_SIZE - 1)
Fds == 0 .. (MAX_OPEN_FILES - 1)
Entries == 0 .. (FILE_TABLE_SIZE - 1)
Inodes == 0 .. (ROOT_ENTRY_COUNT - 1)
KillSignals == {SIGHUP, SIGTERM, SIGCHLD}
ExitStatuses == {0, 1}
SleepEvents == {DEV_EVENT}

\* last_schedule observes the step that led to the state: whether schedule()
\* ran in it and what its signal checks left on the ready queue.  last_wait
\* observes the same step: the process wait() returned to, the value returned,
\* the slot it released and the status it wrote to wstatus.  life records, for
\* the process a slot holds, who forked it, how it terminated and the signal
\* with which kill(pid, signal) last took it off the wait list.  steps counts
\* the system calls of the run; clock flips at every timer interrupt and
\* resumption in the specifications that state fairness, and stays 0 elsewhere.
\* last_call observes the system call of the step in the specifications that
\* follow calls: the caller's slot, the call, its two arguments and the value it
\* returned; it is NoCall with 0 elsewhere.
VARIABLES process_table, pid_num, pc, shutdown, global_file_table, inode_table, halted, last_schedule, last_wait, last_call, life, steps, clock

vars == <<process_table, pid_num, pc, shutdown, global_file_table, inode_table, halted, last_schedule, last_wait, last_call, life, steps, clock>>

\* ------------------------------------------------------------ list library
Range(s) == {s[i] : i \in 1 .. Len(s)}

empty(list) == list = <<>>

front(list) == IF list = <<>> THEN NULL ELSE Head(list)

push_back(list, node) == Append(list, node)

pop_front(list) == IF list = <<>> THEN list ELSE Tail(list)

contains(list, node) == node \in Range(list)

FirstIndex(list, node) == CHOOSE i \in 1 .. Len(list) : list[i] = node /\ \A j \in 1 .. (i - 1) : list[j] # node

remove(list, node) == IF ~contains(list, node) THEN list ELSE LET k == FirstIndex(list, node) IN SubSeq(list, 1, k - 1) \o SubSeq(list, k + 1, Len(list))

\* first node of the list whose event field is the given event, or NULL
find_evt(pt, list, event) == IF \E i \in 1 .. Len(list) : pt[list[i]].event = event THEN list[CHOOSE i \in 1 .. Len(list) : pt[list[i]].event = event /\ \A j \in 1 .. (i - 1) : pt[list[j]].event # event] ELSE NULL

\* ------------------------------------------------------------ integer helpers
RECURSIVE BitOr(_, _)
BitOr(a, b) == IF a = 0 THEN b ELSE IF b = 0 THEN a ELSE (IF (a % 2 = 1) \/ (b % 2 = 1) THEN 1 ELSE 0) + 2 * BitOr(a \div 2, b \div 2)

SetMin(S) == CHOOSE x \in S : \A y \in S : x <= y

\* --------------------------------------------------------------- the kernel
\* A kernel state K is the record of all variables; each C function is an
\* operator from kernel states to kernel states.  More fields observe the
\* call: ret is the value returned to the caller, scheduled tells that
\* schedule() ran, survivors is the ready queue as the signal checks of
\* schedule() left it, before the head is taken off, waiter is the process
\* wait() returned to, options its options argument, reaped the slot wait()
\* released and wstatus the value it wrote through its wstatus argument.
\* no system call is followed
NoCall == [caller |-> NULL, op |-> "none", a |-> 0, b |-> 0]

Kernel == [process_table |-> process_table, pid_num |-> pid_num, pc |-> pc, shutdown |-> shutdown, global_file_table |-> global_file_table, inode_table |-> inode_table, halted |-> halted, life |-> life, ret |-> 0, scheduled |-> FALSE, survivors |-> <<>>, waiter |-> NULL, options |-> 0, reaped |-> NULL, wstatus |-> 0, call |-> NoCall]

Install(K) ==
    /\ process_table' = K.process_table
    /\ pid_num' = K.pid_num
    /\ pc' = K.pc
    /\ shutdown' = K.shutdown
    /\ global_file_table' = K.global_file_table
    /\ inode_table' = K.inode_table
    /\ halted' = K.halted
    /\ last_schedule' = [ran |-> K.scheduled, survivors |-> K.survivors]
    /\ last_wait' = [waiter |-> K.waiter, options |-> IF K.waiter = NULL THEN 0 ELSE K.options, ret |-> IF K.waiter = NULL THEN 0 ELSE K.ret, reaped |-> K.reaped, wstatus |-> K.wstatus]
    /\ life' = K.life
    /\ last_call' = [caller |-> K.call.caller, op |-> K.call.op, a |-> K.call.a, b |-> K.call.b, ret |-> IF K.call.op = "none" THEN 0 ELSE K.ret]

\* a failed ASSERT or a dereference of a null pointer stops the kernel
Halt(K) == [K EXCEPT !.halted = TRUE]

\* stack and page_map count the pages the slot holds (kalloc less kfree);
\* reg_context is <<>> for the null pointer and <<f>> when it points at the
\* context frame f, of which register x5 is kept
\* a context frame of zero bytes (lines 57, 574)
ZeroFrame == [x5 |-> 0]

ZeroProcess == [state |-> "UNUSED", pid |-> 0, ppid |-> 0, status |-> 0, signals |-> {}, wpid |-> 0, daemon |-> FALSE, event |-> NONE, fd_table |-> [i \in Fds |-> NULL], stack |-> 0, page_map |-> 0, reg_context |-> <<>>, kpc |-> "user"]

\* forker: the slot of the process that forked this one; kind, code: how it
\* terminated ("exit" with its status argument, "signal" with the signal);
\* status: its status field when exit() had marked it KILLED
ZeroLife == [forker |-> NULL, kind |-> "none", code |-> 0, status |-> 0, woken |-> NULL]

find_unused_slot(pt) == IF \E i \in UserSlots : pt[i].state = "UNUSED" THEN SetMin({i \in UserSlots : pt[i].state = "UNUSED"}) ELSE NULL

\* the slot is the one find_unused_slot returns, not NULL
alloc_new_process(K, slot) == [K EXCEPT !.process_table[slot].state = "INIT", !.process_table[slot].status = 0, !.process_table[slot].signals = {}, !.process_table[slot].wpid = 0, !.process_table[slot].pid = K.pid_num, !.process_table[slot].kpc = "user", !.process_table[slot].stack = @ + 1, !.process_table[slot].page_map = @ + 1, !.process_table[slot].reg_context = <<ZeroFrame>>, !.life[slot] = ZeroLife, !.pid_num = K.pid_num + 1]

init_idle_process(K) == [K EXCEPT !.process_table[0].state = "RUNNING", !.process_table[0].pid = 0, !.process_table[0].daemon = TRUE, !.pc.curr_process = 0]

init_user_admit(K, slot) == [K EXCEPT !.process_table[slot].ppid = 0, !.process_table[slot].state = "READY", !.process_table[slot].daemon = TRUE, !.pc.ready_que = push_back(K.pc.ready_que, slot)]

init_user_process(K) == init_user_admit(alloc_new_process(K, find_unused_slot(K.process_table)), find_unused_slot(K.process_table))

ZeroKernel == [process_table |-> [i \in Slots |-> ZeroProcess], pid_num |-> 1, pc |-> [curr_process |-> NULL, fg_process |-> NULL, ready_que |-> <<>>, wait_list |-> <<>>, zombies |-> <<>>], shutdown |-> FALSE, global_file_table |-> [e \in Entries |-> [inode |-> NULL, ref_count |-> 0]], inode_table |-> [n \in Inodes |-> [ref_count |-> 0]], halted |-> FALSE, life |-> [i \in Slots |-> ZeroLife], ret |-> 0, scheduled |-> FALSE, survivors |-> <<>>, waiter |-> NULL, options |-> 0, reaped |-> NULL, wstatus |-> 0, call |-> NoCall]

init_process(K) == init_user_process(init_idle_process(K))

Init ==
    LET K == init_process(ZeroKernel)
    IN /\ process_table = K.process_table
       /\ pid_num = K.pid_num
       /\ pc = K.pc
       /\ shutdown = K.shutdown
       /\ global_file_table = K.global_file_table
       /\ inode_table = K.inode_table
       /\ halted = K.halted
       /\ steps = 0
       /\ clock = 0
       /\ last_schedule = [ran |-> FALSE, survivors |-> <<>>]
       /\ last_wait = [waiter |-> NULL, options |-> 0, ret |-> 0, reaped |-> NULL, wstatus |-> 0]
       /\ life = K.life
       /\ last_call = [caller |-> NULL, op |-> "none", a |-> 0, b |-> 0, ret |-> 0]

get_curr_process == pc.curr_process

get_process(pt, pid) == IF \E i \in UserSlots : pt[i].state # "UNUSED" /\ pt[i].pid = pid THEN SetMin({i \in UserSlots : pt[i].state # "UNUSED" /\ pt[i].pid = pid}) ELSE NULL

\* switch_parent that assigns curr_ppid where new_ppid is meant
switch_parent_m(K, curr_ppid, new_ppid) == [K EXCEPT !.process_table = [i \in Slots |-> IF i \in UserSlots /\ K.process_table[i].state # "UNUSED" /\ K.process_table[i].ppid = curr_ppid THEN [K.process_table[i] EXCEPT !.ppid = curr_ppid] ELSE K.process_table[i]]]

switch_parent(K, curr_ppid, new_ppid) == [K EXCEPT !.process_table = [i \in Slots |-> IF i \in UserSlots /\ K.process_table[i].state # "UNUSED" /\ K.process_table[i].ppid = curr_ppid THEN [K.process_table[i] EXCEPT !.ppid = new_ppid] ELSE K.process_table[i]]]

\* ------------------------------------------------------- sleep and wake_up
\* the waiters join the ready queue at its head, last waiter first
wake_up_move_m(K, event, woken) == [K EXCEPT !.process_table = [i \in Slots |-> IF i \in Range(woken) THEN [K.process_table[i] EXCEPT !.event = NONE, !.state = "READY"] ELSE K.process_table[i]], !.pc.ready_que = [j \in 1 .. Len(woken) |-> woken[Len(woken) + 1 - j]] \o K.pc.ready_que, !.pc.wait_list = SelectSeq(K.pc.wait_list, LAMBDA s : K.process_table[s].event # event)]

\* lines 335-344: the waiters on the event leave the wait list in its order
wake_up_move(K, event, woken) == [K EXCEPT !.process_table = [i \in Slots |-> IF i \in Range(woken) THEN [K.process_table[i] EXCEPT !.event = NONE, !.state = "READY"] ELSE K.process_table[i]], !.pc.ready_que = K.pc.ready_que \o woken, !.pc.wait_list = SelectSeq(K.pc.wait_list, LAMBDA s : K.process_table[s].event # event)]

\* processes on the ready queue keep the event
wake_up_clear_m(K, event) == K

\* lines 327-332: processes on the ready queue forget the event
wake_up_clear(K, event) == [K EXCEPT !.process_table = [i \in Slots |-> IF i \in Range(K.pc.ready_que) /\ K.process_table[i].event = event THEN [K.process_table[i] EXCEPT !.event = NONE] ELSE K.process_table[i]]]

wake_up_waiters(K, event) == wake_up_move(K, event, SelectSeq(K.pc.wait_list, LAMBDA s : K.process_table[s].event = event))

wake_up(K, event) == wake_up_waiters(wake_up_clear(K, event), event)

\* ---------------------------------------------------------------- signals
RECURSIVE exit(_, _, _, _)

\* default action of a signal on the process at the head of the ready queue
def_handler(K, p, sig) ==
    IF sig \in {SIGHUP, SIGTERM} THEN exit([K EXCEPT !.pc.ready_que = remove(K.pc.ready_que, p)], p, BitOr(128, sig), TRUE)
    ELSE K

RECURSIVE check_pending_signals(_, _)
check_signal(K, p, sig) == check_pending_signals(def_handler([K EXCEPT !.process_table[p].signals = @ \ {sig}], p, sig), p)

check_pending_signals(K, p) == IF K.process_table[p].signals = {} THEN K ELSE check_signal(K, p, SetMin(K.process_table[p].signals))

\* --------------------------------------------------------------- scheduler
\* lines 155-168: the kernel state and new_process at the end of the loop
RECURSIVE schedule_loop(_)
schedule_check(K, new_process) ==
    IF new_process = front(K.pc.ready_que) THEN [K |-> [K EXCEPT !.pc.ready_que = pop_front(K.pc.ready_que), !.survivors = K.pc.ready_que], new_process |-> new_process]
    ELSE schedule_loop(K)

schedule_head(K, new_process) == schedule_check(check_pending_signals(K, new_process), new_process)

schedule_loop(K) == IF empty(K.pc.ready_que) THEN [K |-> K, new_process |-> NULL] ELSE schedule_head(K, front(K.pc.ready_que))

\* schedule_idle that forgets the test of new_process
schedule_idle_m(K, new_process) == empty(K.pc.ready_que)

\* line 171: no process is left to run
schedule_idle(K, new_process) == empty(K.pc.ready_que) /\ new_process = NULL

\* lines 171-179
schedule_select(K, new_process) == IF schedule_idle(K, new_process) THEN 0 ELSE new_process

\* the flag is set as soon as the idle process has SIGTERM pending
schedule_shutdown_any_m(K, new_process) == IF SIGTERM \in K.process_table[0].signals THEN TRUE ELSE K.shutdown

\* schedule_shutdown that asks for a wait list that is not empty
schedule_shutdown_m(K, new_process) == IF schedule_idle(K, new_process) /\ ~empty(K.pc.wait_list) /\ SIGTERM \in K.process_table[0].signals THEN TRUE ELSE K.shutdown

\* lines 172-177
schedule_shutdown(K, new_process) == IF schedule_idle(K, new_process) /\ empty(K.pc.wait_list) /\ SIGTERM \in K.process_table[0].signals THEN TRUE ELSE K.shutdown

\* lines 181-185
schedule_dispatch(K, new_process) == [K EXCEPT !.process_table[new_process].state = "RUNNING", !.pc.curr_process = new_process, !.pc.fg_process = IF ~K.process_table[new_process].daemon /\ K.pc.fg_process = NULL THEN new_process ELSE K.pc.fg_process]

\* x5 of the idle process is set whatever the shutdown flag says
switch_process_m(K, existing, new) == IF K.process_table[new].pid = 0 /\ K.process_table[new].reg_context # <<>> THEN [K EXCEPT !.process_table[new].reg_context = <<[@[1] EXCEPT !.x5 = 1]>>] ELSE K

\* lines 130-147: swap() comes back on the kernel stack of the process that
\* is switched in, inside the switch_process call that once switched it out,
\* where existing is that process itself: the test of lines 143-146 is made
\* for the process the scheduler has just switched into.  (A process that is
\* dispatched for the first time leaves swap through trap_return and makes no
\* test; its pid is not 0.)
switch_process(K, existing, new) == IF K.shutdown /\ K.process_table[new].pid = 0 /\ K.process_table[new].reg_context # <<>> THEN [K EXCEPT !.process_table[new].reg_context = <<[@[1] EXCEPT !.x5 = 1]>>] ELSE K

schedule_tail(K, new_process) == switch_process(schedule_dispatch([K EXCEPT !.shutdown = schedule_shutdown(K, new_process), !.scheduled = TRUE], schedule_select(K, new_process)), K.pc.curr_process, schedule_select(K, new_process))

schedule_after(r) == schedule_tail(r.K, r.new_process)

schedule(K) == schedule_after(schedule_loop(K))

\* trigger_requeue that puts the preempted process at the head of the queue
trigger_requeue_front(K, process) == [K EXCEPT !.process_table[process].state = "READY", !.pc.ready_que = IF K.process_table[process].pid # 0 THEN <<process>> \o K.pc.ready_que ELSE K.pc.ready_que]

\* trigger_requeue that forgets to take the RUNNING state from the process
trigger_requeue_m(K, process) == [K EXCEPT !.pc.ready_que = IF K.process_table[process].pid # 0 THEN push_back(K.pc.ready_que, process) ELSE K.pc.ready_que]

\* lines 198-203
trigger_requeue(K, process) == [K EXCEPT !.process_table[process].state = "READY", !.pc.ready_que = IF K.process_table[process].pid # 0 THEN push_back(K.pc.ready_que, process) ELSE K.pc.ready_que]

\* trigger_scheduler that preempts the idle process only
trigger_scheduler_m(K) == IF empty(K.pc.ready_que) \/ K.process_table[K.pc.curr_process].pid # 0 THEN K ELSE schedule(trigger_requeue(K, K.pc.curr_process))

trigger_scheduler(K) == IF empty(K.pc.ready_que) THEN K ELSE schedule(trigger_requeue(K, K.pc.curr_process))

\* lines 307-313
sleep_enqueue(K, process, event) == [K EXCEPT !.process_table[process].state = "SLEEP", !.process_table[process].event = event, !.pc.wait_list = push_back(K.pc.wait_list, process)]

\* lines 303-315: sleep up to the context switch; the rest runs in Resume
sleep(K, event) == schedule(sleep_enqueue(K, K.pc.curr_process, event))

\* ------------------------------------------------------------------- exit
\* line 351
exit_pack(old, status, sig_handler_req) == BitOr(old, IF sig_handler_req THEN status % 128 ELSE (status % 256) * 256)

\* lines 351-354
exit_mark(K, p, status, sig_handler_req) == [K EXCEPT !.process_table[p].status = exit_pack(@, status, sig_handler_req), !.process_table[p].state = "KILLED", !.process_table[p].event = K.process_table[p].pid, !.life[p].kind = IF sig_handler_req THEN "signal" ELSE "exit", !.life[p].code = status, !.life[p].status = exit_pack(K.process_table[p].status, status, sig_handler_req)]

\* lines 357-363: the parent is told
exit_inform(K, p, parent) == [K EXCEPT !.process_table[parent].signals = @ \cup {SIGCHLD}, !.process_table[parent].status = K.process_table[p].status, !.process_table[p].ppid = IF K.process_table[parent].wpid >= 0 /\ K.process_table[parent].wpid # K.process_table[p].pid THEN 1 ELSE @]

\* lines 356-365
exit_parent(K, p, parent) == IF parent # NULL /\ K.process_table[parent].state # "KILLED" THEN exit_inform(K, p, parent) ELSE [K EXCEPT !.process_table[p].ppid = 1]

\* lines 369-372
exit_fg(K, p, parent) == IF K.pc.fg_process # NULL /\ K.process_table[p].pid = K.process_table[K.pc.fg_process].pid THEN [K EXCEPT !.pc.fg_process = IF parent # NULL /\ ~K.process_table[parent].daemon THEN parent ELSE NULL] ELSE K

\* lines 374-376
exit_zombie(K, p) == [(IF ~K.process_table[p].daemon THEN wake_up(K, FG_PAUSED) ELSE K) EXCEPT !.pc.zombies = push_back(@, p)]

\* lines 356-379 for the parent that get_process found
exit_orphan(K, p, pid, parent) == wake_up(exit_zombie(exit_fg(switch_parent(exit_parent(K, p, parent), pid, 1), p, parent), p), ZOMBIE_CLEANUP)

exit_marked(K, p) == exit_orphan(K, p, K.process_table[p].pid, get_process(K.process_table, K.process_table[p].ppid))

\* lines 351-379: everything of exit before the final schedule()
exit_body(K, p, status, sig_handler_req) == exit_marked(exit_mark(K, p, status, sig_handler_req), p)

\* exit that does not turn a KILLED process away
exit_m(K, p, status, sig_handler_req) ==
    IF p = NULL \/ K.process_table[p].state = "UNUSED" THEN K
    ELSE IF sig_handler_req THEN exit_body(K, p, status, TRUE)
    ELSE schedule(exit_body(K, p, status, FALSE))

\* lines 347-384
exit(K, p, status, sig_handler_req) ==
    IF p = NULL \/ K.process_table[p].state = "UNUSED" \/ K.process_table[p].state = "KILLED" THEN K
    ELSE IF sig_handler_req THEN exit_body(K, p, status, TRUE)
    ELSE schedule(exit_body(K, p, status, FALSE))

\* ------------------------------------------------------------- file layer
\* search_file: the root directory holds the files Inodes; any other name is
\* not found (DIR_ENTRY_INVALID is NULL here)
search_file(path) == IF path \in Inodes THEN path ELSE NULL

\* get_inode_entry that does not count the new reference
get_inode_entry_m(K, dir_entry_index) == K

get_inode_entry(K, dir_entry_index) == [K EXCEPT !.inode_table[dir_entry_index].ref_count = @ + 1]

\* lines 236-244
first_free_fd(K, process) == IF \E i \in Fds : K.process_table[process].fd_table[i] = NULL THEN SetMin({i \in Fds : K.process_table[process].fd_table[i] = NULL}) ELSE -1

\* lines 247-256
first_free_entry(K) == IF \E e \in Entries : K.global_file_table[e].inode = NULL THEN SetMin({e \in Entries : K.global_file_table[e].inode = NULL}) ELSE -1

\* the value open_file returns
open_file_ret(K, process, pathname) == IF first_free_fd(K, process) = -1 \/ first_free_entry(K) = -1 \/ search_file(pathname) = NULL THEN -1 ELSE first_free_fd(K, process)

\* lines 263-268
open_file_link(K, process, fd, file_table_index, inode_table_index) == [K EXCEPT !.global_file_table[file_table_index] = [inode |-> inode_table_index, ref_count |-> 1], !.process_table[process].fd_table[fd] = file_table_index]

open_file_found(K, process, fd, file_table_index, dir_entry_index) == open_file_link(get_inode_entry(K, dir_entry_index), process, fd, file_table_index, dir_entry_index)

open_file(K, process, pathname) ==
    IF open_file_ret(K, process, pathname) = -1 THEN K
    ELSE open_file_found(K, process, first_free_fd(K, process), first_free_entry(K), search_file(pathname))

\* inode_put with its ASSERT(inode->ref_count > 0)
inode_put(K, inode) == IF K.inode_table[inode].ref_count > 0 THEN [K EXCEPT !.inode_table[inode].ref_count = @ - 1] ELSE Halt(K)

\* lines 292-295: the fd slot is cleared only when the entry's ref_count is zero
\* (for an fd past the end of fd_table the store falls behind the table)
close_file_unlink(K, process, fd, entry) == IF K.global_file_table[entry].ref_count = 0 THEN [K EXCEPT !.global_file_table[entry].inode = NULL, !.process_table[process].fd_table = [i \in Fds |-> IF i = fd THEN NULL ELSE @[i]]] ELSE K

\* lines 289-295
close_file_unref(K, process, fd, entry) == IF K.halted THEN K ELSE close_file_unlink([K EXCEPT !.global_file_table[entry].ref_count = @ - 1], process, fd, entry)

\* lines 286-295: reading through a null fd slot or a null inode is a fault
close_file_entry(K, process, fd, entry) ==
    IF entry = NULL THEN Halt(K)
    ELSE IF K.global_file_table[entry].inode = NULL THEN Halt(K)
    ELSE close_file_unref(inode_put(K, K.global_file_table[entry].inode), process, fd, entry)

\* line 286: the word process->fd_table[fd]; for an fd past the end of the
\* array it is beyond, whatever the PCB holds behind its fd_table
fd_word(K, process, fd, beyond) == IF fd \in Fds THEN K.process_table[process].fd_table[fd] ELSE beyond

\* close_file for any int fd: only a negative fd is turned away (line 282)
close_file_at(K, process, fd, beyond) == IF fd < 0 THEN K ELSE close_file_entry(K, process, fd, fd_word(K, process, fd, beyond))

close_file(K, process, fd) == IF fd < 0 THEN K ELSE close_file_entry(K, process, fd, K.process_table[process].fd_table[fd])

\* release_entry that forgets the reference count of the inode
release_entry_m(K, entry, inode) ==
    IF inode = NULL THEN Halt(K)
    ELSE [K EXCEPT !.global_file_table[entry].ref_count = @ - 1, !.global_file_table[entry].inode = IF K.inode_table[inode].ref_count - 1 = 0 THEN NULL ELSE inode]

\* wait lines 431-436 (and kill lines 641-646) for one fd slot that is not null
release_entry(K, entry, inode) ==
    IF inode = NULL THEN Halt(K)
    ELSE [K EXCEPT !.global_file_table[entry].ref_count = @ - 1, !.inode_table[inode].ref_count = @ - 1, !.global_file_table[entry].inode = IF K.inode_table[inode].ref_count - 1 = 0 THEN NULL ELSE inode]

\* one round of the loop that drops the references a zombie holds: table is
\* the fd_table the loop reads
release_fd(K, table, i) == IF table[i] = NULL THEN K ELSE release_entry(K, table[i], K.global_file_table[table[i]].inode)

\* wait lines 428-438
RECURSIVE release_fds(_, _, _)
release_fds(K, zombie, i) ==
    IF i >= MAX_OPEN_FILES \/ K.halted THEN K
    ELSE release_fds(release_fd(K, K.process_table[zombie].fd_table, i), zombie, i + 1)

\* ------------------------------------------------------------------- fork
\* fork_fd_table that copies MAX_OPEN_FILES bytes, not pointers: the first slot
fork_fd_table_m(parent_table) == [i \in Fds |-> IF i = 0 THEN parent_table[i] ELSE NULL]

\* line 485: the child's fd_table is a copy of the parent's
fork_fd_table(parent_table) == parent_table

\* fork_ref_entry that leaves the reference count of the inode alone
fork_ref_entry_m(K, entry, inode) == IF inode = NULL THEN Halt(K) ELSE [K EXCEPT !.global_file_table[entry].ref_count = @ + 1]

\* lines 489-490
fork_ref_entry(K, entry, inode) == IF inode = NULL THEN Halt(K) ELSE [K EXCEPT !.global_file_table[entry].ref_count = @ + 1, !.inode_table[inode].ref_count = @ + 1]

\* one round of the loop of lines 486-492 for child fd i
fork_ref(K, table, i) == IF table[i] = NULL THEN K ELSE fork_ref_entry(K, table[i], K.global_file_table[table[i]].inode)

RECURSIVE fork_refs(_, _, _)
fork_refs(K, process, i) ==
    IF i >= MAX_OPEN_FILES \/ K.halted THEN K
    ELSE fork_refs(fork_ref(K, K.process_table[process].fd_table, i), process, i + 1)

\* lines 495-504
fork_admit(K, process) == IF K.halted THEN K ELSE [K EXCEPT !.process_table[process].reg_context = K.process_table[K.pc.curr_process].reg_context, !.process_table[process].state = "READY", !.pc.ready_que = push_back(K.pc.ready_que, process), !.ret = K.process_table[process].pid]

\* lines 485-504
fork_files(K, process, curr) == fork_admit(fork_refs([K EXCEPT !.process_table[process].fd_table = fork_fd_table(K.process_table[curr].fd_table)], process, 0), process)

\* lines 471-477
fork_parent(K, process, curr) == [K EXCEPT !.process_table[process].ppid = K.process_table[curr].pid, !.life[process].forker = curr, !.pc.fg_process = IF K.pc.fg_process # NULL /\ K.process_table[curr].pid = K.process_table[K.pc.fg_process].pid THEN NULL ELSE K.pc.fg_process]

\* lines 480-504; copy_ok is the result of copy_uvm
fork_copy(K, process, curr, copy_ok) == IF ~copy_ok THEN [K EXCEPT !.ret = -1] ELSE fork_files(K, process, curr)

fork_child(K, process, curr, copy_ok) == fork_copy(fork_parent(alloc_new_process(K, process), process, curr), process, curr, copy_ok)

fork(K, copy_ok) == IF find_unused_slot(K.process_table) = NULL THEN [K EXCEPT !.ret = -1] ELSE fork_child(K, find_unused_slot(K.process_table), K.pc.curr_process, copy_ok)

\* ------------------------------------------------------------------- wait
Children(K) == {i \in UserSlots : K.process_table[i].state # "UNUSED" /\ K.process_table[i].ppid = K.process_table[K.pc.curr_process].pid}

\* lines 396-414
has_child(K, pid) == IF pid = -1 THEN Children(K) # {} ELSE get_process(K.process_table, pid) # NULL

\* lines 398-409: the pid wait looks for on the zombie list
wait_target(K, pid) ==
    IF pid = -1 /\ \E i \in Children(K) : contains(K.pc.zombies, i)
    THEN K.process_table[SetMin({i \in Children(K) : contains(K.pc.zombies, i)})].pid
    ELSE pid

ReturnToUser(K, value) == IF K.halted THEN K ELSE [K EXCEPT !.process_table[K.pc.curr_process].kpc = "user", !.ret = value]

\* wait returns value to the current process
wait_return(K, value) == IF K.halted THEN K ELSE [ReturnToUser(K, value) EXCEPT !.waiter = K.pc.curr_process]

\* reap_free that releases the kernel stack and forgets the page map
reap_free_m(K, zombie) == [K EXCEPT !.process_table[zombie].stack = @ - 1]

\* lines 425-426: kfree(zombie->stack), free_uvm(zombie->page_map)
reap_free(K, zombie) == [K EXCEPT !.process_table[zombie].stack = @ - 1, !.process_table[zombie].page_map = @ - 1]

\* lines 439-446
reap_slot(K, zombie) == IF K.halted THEN K ELSE [K EXCEPT !.process_table[zombie].state = "UNUSED", !.process_table[zombie].daemon = FALSE, !.process_table[zombie].status = 0, !.reaped = zombie, !.wstatus = K.process_table[zombie].status]

reap_probe(K) == IF ~K.halted /\ K.process_table[K.pc.curr_process].wpid = -1 THEN wake_up(K, ZOMBIE_CLEANUP) ELSE K

\* lines 425-449: release the zombie and hand its status to the caller
reap(K, zombie) == reap_probe(reap_slot(release_fds(reap_free(K, zombie), zombie, 0), zombie))

\* lines 420-451: the zombie has left the zombie list
wait_zombie(K, zombie, target) == IF K.process_table[zombie].state # "KILLED" THEN wait_return(K, target) ELSE wait_return(reap(K, zombie), target)

\* wait_sweep that does not look at the options
wait_sweep_m(K, zombie, target, options) ==
    IF zombie # NULL THEN wait_zombie([K EXCEPT !.pc.zombies = remove(K.pc.zombies, zombie)], zombie, target)
    ELSE sleep([K EXCEPT !.process_table[K.pc.curr_process].kpc = "wait"], ZOMBIE_CLEANUP)

\* lines 419-455
wait_sweep(K, zombie, target, options) ==
    IF zombie # NULL THEN wait_zombie([K EXCEPT !.pc.zombies = remove(K.pc.zombies, zombie)], zombie, target)
    ELSE IF options = WNOHANG THEN wait_return(K, 0)
    ELSE sleep([K EXCEPT !.process_table[K.pc.curr_process].kpc = "wait"], ZOMBIE_CLEANUP)

wait_find(K, target, options) == wait_sweep(K, IF empty(K.pc.zombies) THEN NULL ELSE find_evt(K.process_table, K.pc.zombies, target), target, options)

\* one round of the loop of lines 394-456, up to return or context switch
wait_loop(K, pid, options) == IF ~has_child(K, pid) THEN wait_return(K, -1) ELSE wait_find(K, wait_target(K, pid), options)

\* wait that stores pid in wpid before it checks it
wait_m(K, pid, options) ==
    IF pid = 0 \/ pid < -1 THEN [K EXCEPT !.process_table[K.pc.curr_process].wpid = pid, !.ret = -1]
    ELSE wait_loop([K EXCEPT !.process_table[K.pc.curr_process].wpid = pid, !.options = options], pid, options)

wait(K, pid, options) ==
    IF pid = 0 \/ pid < -1 THEN [K EXCEPT !.ret = -1]
    ELSE wait_loop([K EXCEPT !.process_table[K.pc.curr_process].wpid = pid, !.options = options], pid, options)

\* ------------------------------------------------------------------- kill
\* kill_wake that forgets to unlink the sleeper from the wait list
kill_wake_m(K, i) == IF K.process_table[i].state = "SLEEP" THEN [K EXCEPT !.process_table[i].state = "READY", !.pc.ready_que = push_back(K.pc.ready_que, i)] ELSE K

\* lines 627-631: a sleeper is moved to the ready queue
kill_wake(K, i) == IF K.process_table[i].state = "SLEEP" THEN [K EXCEPT !.pc.wait_list = remove(K.pc.wait_list, i), !.process_table[i].state = "READY", !.pc.ready_que = push_back(K.pc.ready_que, i)] ELSE K

\* lines 625-631: mark the signal pending and wake a sleeper
send_signal(K, i, signal) == kill_wake([K EXCEPT !.process_table[i].signals = @ \cup {signal}], i)

\* lines 638-648: the inner loop reuses the name i, so its round i reads
\* process_table[i].fd_table[i]
RECURSIVE release_rogue_fds(_, _)
release_rogue_fds(K, i) ==
    IF i >= MAX_OPEN_FILES \/ K.halted THEN K
    ELSE IF i \notin Slots THEN Halt(K)
    ELSE release_rogue_fds(release_fd(K, K.process_table[i].fd_table, i), i + 1)

\* lines 649-650
release_rogue_slot(K, i) == IF K.halted THEN K ELSE [K EXCEPT !.process_table[i].state = "UNUSED", !.process_table[i].daemon = FALSE]

\* lines 635-636
release_rogue_free(K, i) == [K EXCEPT !.process_table[i].stack = @ - 1, !.process_table[i].page_map = @ - 1]

\* lines 633-652
release_rogue(K, i) == release_rogue_slot(release_rogue_fds(release_rogue_free(K, i), 0), i)

\* lines 621-652 for one slot
kill_slot(K, i, curr_pid, signal) ==
    IF K.process_table[i].pid = curr_pid THEN K
    ELSE IF K.process_table[i].state \notin {"UNUSED", "KILLED"} THEN send_signal(K, i, signal)
    ELSE IF K.process_table[i].state = "KILLED" /\ signal = SIGHUP /\ K.process_table[i].ppid # 1 THEN release_rogue(K, i)
    ELSE K

\* lines 619-653
RECURSIVE kill_all(_, _, _, _)
kill_all(K, i, curr_pid, signal) ==
    IF i >= PROC_TABLE_SIZE \/ K.halted THEN K
    ELSE kill_all(kill_slot(K, i, curr_pid, signal), i + 1, curr_pid, signal)

\* lines 660-661
kill_pid_num(K, signal) == IF signal = SIGHUP THEN 2 ELSE K.pid_num

\* lines 655-658
kill_shutdown(K, signal) == IF signal = SIGTERM THEN [K EXCEPT !.process_table[1].signals = @ \cup {signal}, !.process_table[0].signals = @ \cup {signal}] ELSE K

\* lines 654-662
kill_all_done(K, signal) == IF K.halted THEN K ELSE [kill_shutdown(K, signal) EXCEPT !.pid_num = kill_pid_num(K, signal), !.ret = 0]

\* kill(0, sig) that does not look at the ppid
kill_child_m(K, i, process, signal) ==
    IF K.process_table[i].pid = K.process_table[process].pid THEN K
    ELSE IF K.process_table[i].state \notin {"UNUSED", "KILLED"} THEN send_signal(K, i, signal)
    ELSE K

\* lines 669-680 for one slot
kill_child(K, i, process, signal) ==
    IF K.process_table[i].pid = K.process_table[process].pid THEN K
    ELSE IF K.process_table[i].state \notin {"UNUSED", "KILLED"} /\ K.process_table[process].pid = K.process_table[i].ppid THEN send_signal(K, i, signal)
    ELSE K

\* lines 666-681
RECURSIVE kill_children(_, _, _)
kill_children(K, i, signal) == IF i >= PROC_TABLE_SIZE THEN K ELSE kill_children(kill_child(K, i, K.pc.curr_process, signal), i + 1, signal)

\* kill that marks the signal pending and leaves a sleeper on the wait list
kill_one_m(K, target_proc, signal) == IF target_proc = NULL THEN [K EXCEPT !.ret = -1] ELSE [K EXCEPT !.process_table[target_proc].signals = @ \cup {signal}, !.ret = 0, !.life[target_proc].woken = IF K.process_table[target_proc].state = "SLEEP" THEN signal ELSE @]

\* lines 684-696
kill_one(K, target_proc, signal) == IF target_proc = NULL THEN [K EXCEPT !.ret = -1] ELSE [send_signal(K, target_proc, signal) EXCEPT !.ret = 0, !.life[target_proc].woken = IF K.process_table[target_proc].state = "SLEEP" THEN signal ELSE @]

\* lines 618-696: the signal is in range
kill_signal(K, pid, signal) ==
    IF pid = -1 THEN kill_all_done(kill_all(K, 2, K.process_table[K.pc.curr_process].pid, signal), signal)
    ELSE IF pid = 0 THEN [kill_children(K, 2, signal) EXCEPT !.ret = 0]
    ELSE kill_one(K, get_process(K.process_table, pid), signal)

\* kill without the range check of lines 615-616
kill_m(K, pid, signal) == kill_signal(K, pid, signal)

kill(K, pid, signal) == IF signal < 0 \/ signal > TOTAL_SIGNALS - 1 THEN [K EXCEPT !.ret = -1] ELSE kill_signal(K, pid, signal)

\* ------------------------------------------------------------------- exec
\* lines 524-531: the arguments hold "&"
exec_daemon(K, process, amp) == IF amp THEN [K EXCEPT !.process_table[process].daemon = TRUE, !.pc.fg_process = IF K.pc.fg_process # NULL /\ K.process_table[process].pid = K.process_table[K.pc.fg_process].pid THEN NULL ELSE K.pc.fg_process] ELSE K

\* exec that leaves the program file open
exec_load_m(K, process, fd, read_ok) == IF ~read_ok THEN exit(K, process, 1, FALSE) ELSE [K EXCEPT !.process_table[process].reg_context = <<ZeroFrame>>, !.ret = 0]

\* lines 562-610; read_ok: read_file delivered the program
exec_load(K, process, fd, read_ok) == IF ~read_ok THEN exit(K, process, 1, FALSE) ELSE [close_file(K, process, fd) EXCEPT !.process_table[process].reg_context = <<ZeroFrame>>, !.ret = 0]

exec_opened(K, process, fd, name, amp, read_ok) == exec_load(exec_daemon(open_file(K, process, name), process, amp), process, fd, read_ok)

exec(K, process, name, amp, read_ok) == IF open_file_ret(K, process, name) = -1 THEN [K EXCEPT !.ret = -1] ELSE exec_opened(K, process, open_file_ret(K, process, name), name, amp, read_ok)

\* ---------------------------------------------------------------- actions
\* the current process runs in user mode (the idle process runs its loop)
Interruptible == ~halted /\ process_table[pc.curr_process].kpc = "user"

UserMode == Interruptible /\ pc.curr_process # 0

\* a system call of the current process returns with the kernel state K
Syscall(K) == UserMode /\ Install(K)

WaitPids == {-1} \cup (1 .. MaxPid)
KillPids == {-1, 0} \cup (1 .. MaxPid)
Paths == Inodes \cup {ROOT_ENTRY_COUNT}

\* the kernel state at the entry of the call op(a, b) that a step follows
Called(op, a, b) == [Kernel EXCEPT !.call = [caller |-> pc.curr_process, op |-> op, a |-> a, b |-> b]]

Fork(copy_ok) == pid_num <= MaxPid /\ Syscall(fork(Kernel, copy_ok))

\* the same call, followed by last_call
ForkCall(copy_ok) == pid_num <= MaxPid /\ Syscall(fork(Called("fork", 0, 0), copy_ok))

Exit(status) == Syscall(exit(Kernel, pc.curr_process, status, FALSE))

Wait(pid, options) == Syscall(wait(Kernel, pid, options))

Kill(pid, signal) == Syscall(kill(Kernel, pid, signal))

\* wait and kill as steps that last_call follows
WaitCall(pid, options) == Syscall(wait(Called("wait", pid, options), pid, options))

KillCall(pid, signal) == Syscall(kill(Called("kill", pid, signal), pid, signal))

\* open_file and close_file as steps that last_call follows; an fd past the
\* end of fd_table reads the word beyond
OpenCall(pathname) == Syscall([open_file(Called("open", pathname, 0), pc.curr_process, pathname) EXCEPT !.ret = open_file_ret(Kernel, pc.curr_process, pathname)])

CloseCall(fd, beyond) == Syscall(close_file_at(Called("close", fd, beyond), pc.curr_process, fd, beyond))

Open(pathname) == Syscall(open_file(Kernel, pc.curr_process, pathname))

Close(fd) == Syscall(close_file(Kernel, pc.curr_process, fd))

Exec(name, amp, read_ok) == Syscall(exec(Kernel, pc.curr_process, name, amp, read_ok))

\* the same call, followed by last_call: a is the file name, b is 1 when the
\* read of the program succeeds
ExecCall(name, amp, read_ok) == Syscall(exec(Called("exec", name, IF read_ok THEN 1 ELSE 0), pc.curr_process, name, amp, read_ok))

Sleep(event) == Syscall(sleep([Kernel EXCEPT !.process_table[pc.curr_process].kpc = "sleep"], event))

\* an interrupt handler reports the event
\* entry of the trap handler: the frame of the interrupted idle process, which
\* has no context frame of its own (lines 88-100), is recorded in its PCB
trap_frame(K) == IF K.pc.curr_process = 0 /\ K.process_table[0].reg_context = <<>> THEN [K EXCEPT !.process_table[0].reg_context = <<ZeroFrame>>] ELSE K

WakeUp(event) == Interruptible /\ Install(wake_up(trap_frame(Kernel), event))

\* the same interrupt, followed by last_call
WakeUpCall(event) == Interruptible /\ Install(wake_up(trap_frame(Called("wake_up", event, 0)), event))

\* the timer interrupt
TimerTick == Interruptible /\ Install(trigger_scheduler(trap_frame(Kernel)))

\* resume_at without the test of lines 316-317: sleep returns when its process
\* is switched in
resume_at_m(K, process) ==
    IF K.process_table[process].kpc = "sleep" THEN ReturnToUser([K EXCEPT !.process_table[process].event = NONE], 0)
    ELSE wait_loop([K EXCEPT !.process_table[process].event = NONE], K.process_table[process].wpid, 0)

\* lines 316-319 and, for a process inside wait, the next round of its loop
resume_at(K, process) ==
    IF K.process_table[process].event # NONE THEN sleep(K, K.process_table[process].event)
    ELSE IF K.process_table[process].kpc = "sleep" THEN ReturnToUser(K, 0)
    ELSE wait_loop(K, K.process_table[process].wpid, 0)

resume(K) == resume_at(K, K.pc.curr_process)

\* the process switched in continues in the kernel where it was switched out
Resumable == ~halted /\ process_table[pc.curr_process].kpc # "user"

Resume == Resumable /\ Install(resume(Kernel))

\* a run makes at most max system calls; interrupts and resumptions are free
Budget(max) == steps < max /\ steps' = steps + 1 /\ UNCHANGED clock

Free == UNCHANGED <<steps, clock>>

\* an interrupt or resumption that the clock observes: clock flips at the step
Fair == UNCHANGED steps /\ clock' = 1 - clock

\* every operation of the kernel
Next ==
    \/ \E copy_ok \in BOOLEAN : Budget(MaxSteps) /\ Fork(copy_ok)
    \/ \E status \in ExitStatuses : Budget(MaxSteps) /\ Exit(status)
    \/ \E pid \in WaitPids, options \in {0, WNOHANG} : Budget(MaxSteps) /\ Wait(pid, options)
    \/ \E pid \in KillPids, signal \in KillSignals : Budget(MaxSteps) /\ Kill(pid, signal)
    \/ \E pathname \in Paths : Budget(MaxSteps) /\ Open(pathname)
    \/ \E fd \in Fds : Budget(MaxSteps) /\ Close(fd)
    \/ \E name \in Paths, amp \in BOOLEAN, read_ok \in BOOLEAN : Budget(MaxSteps) /\ Exec(name, amp, read_ok)
    \/ \E event \in SleepEvents : Budget(MaxSteps) /\ Sleep(event)
    \/ \E event \in SleepEvents : Free /\ WakeUp(event)
    \/ Free /\ TimerTick
    \/ Free /\ Resume

Spec == Init /\ [][Next]_vars

\* fork, exit, wait and kill under the scheduler
NextProc ==
    \/ \E copy_ok \in BOOLEAN : Budget(MaxProcSteps) /\ Fork(copy_ok)
    \/ \E status \in ExitStatuses : Budget(MaxProcSteps) /\ Exit(status)
    \/ \E pid \in WaitPids, options \in {0, WNOHANG} : Budget(MaxProcSteps) /\ Wait(pid, options)
    \/ \E pid \in KillPids, signal \in KillSignals : Budget(MaxProcSteps) /\ Kill(pid, signal)
    \/ Free /\ TimerTick
    \/ Free /\ Resume

SpecProc == Init /\ [][NextProc]_vars

\* open_file, close_file, fork, exit and wait under the scheduler
NextFile ==
    \/ \E pathname \in Paths : Budget(MaxFileSteps) /\ Open(pathname)
    \/ \E fd \in Fds : Budget(MaxFileSteps) /\ Close(fd)
    \/ \E copy_ok \in BOOLEAN : Budget(MaxFileSteps) /\ Fork(copy_ok)
    \/ \E status \in ExitStatuses : Budget(MaxFileSteps) /\ Exit(status)
    \/ \E pid \in WaitPids, options \in {0, WNOHANG} : Budget(MaxFileSteps) /\ Wait(pid, options)
    \/ Free /\ TimerTick
    \/ Free /\ Resume

SpecFile == Init /\ [][NextFile]_vars

\* fork, exit and wait under the scheduler
NextReap ==
    \/ \E copy_ok \in BOOLEAN : Budget(MaxReapSteps) /\ Fork(copy_ok)
    \/ \E status \in ExitStatuses : Budget(MaxReapSteps) /\ Exit(status)
    \/ \E pid \in WaitPids, options \in {0, WNOHANG} : Budget(MaxReapSteps) /\ Wait(pid, options)
    \/ Free /\ TimerTick
    \/ Free /\ Resume

SpecReap == Init /\ [][NextReap]_vars

\* open_file, close_file, fork, exit and wait again, for one more system call
NextLeak ==
    \/ \E pathname \in Paths : Budget(MaxLeakSteps) /\ Open(pathname)
    \/ \E fd \in Fds : Budget(MaxLeakSteps) /\ Close(fd)
    \/ \E copy_ok \in BOOLEAN : Budget(MaxLeakSteps) /\ Fork(copy_ok)
    \/ \E status \in ExitStatuses : Budget(MaxLeakSteps) /\ Exit(status)
    \/ \E pid \in WaitPids, options \in {0, WNOHANG} : Budget(MaxLeakSteps) /\ Wait(pid, options)
    \/ Free /\ TimerTick
    \/ Free /\ Resume

SpecLeak == Init /\ [][NextLeak]_vars

\* fork, exit, wait, kill of one process, sleep and wake_up under the scheduler
NextSig ==
    \/ \E copy_ok \in BOOLEAN : Budget(MaxSigSteps) /\ Fork(copy_ok)
    \/ \E status \in ExitStatuses : Budget(MaxSigSteps) /\ Exit(status)
    \/ \E pid \in WaitPids, options \in {0, WNOHANG} : Budget(MaxSigSteps) /\ Wait(pid, options)
    \/ \E pid \in 1 .. MaxPid, signal \in KillSignals : Budget(MaxSigSteps) /\ Kill(pid, signal)
    \/ \E event \in SleepEvents : Budget(MaxSigSteps) /\ Sleep(event)
    \/ \E event \in SleepEvents : Free /\ WakeUp(event)
    \/ Free /\ TimerTick
    \/ Free /\ Resume

SpecSig == Init /\ [][NextSig]_vars

\* fork, exit, wait(-1) and the shutdown request kill(-1, SIGTERM); the timer keeps
\* ticking and a process that is switched in continues in the kernel
NextDown ==
    \/ \E copy_ok \in BOOLEAN : Budget(MaxDownSteps) /\ Fork(copy_ok)
    \/ \E status \in ExitStatuses : Budget(MaxDownSteps) /\ Exit(status)
    \/ \E options \in {0, WNOHANG} : Budget(MaxDownSteps) /\ Wait(-1, options)
    \/ Budget(MaxDownSteps) /\ Kill(-1, SIGTERM)
    \/ Fair /\ TimerTick
    \/ Fair /\ Resume

\* The steps of NextDown that flip clock are the TimerTick steps, taken from a
\* state where Interruptible holds, and the Resume steps, taken from a state
\* where Resumable holds.  Weak fairness of the two actions is written over
\* clock, so that what enables them is a state predicate.
TimerFair == Interruptible /\ clock' = 1 - clock

ResumeFair == Resumable /\ clock' = 1 - clock

SpecDown == Init /\ [][NextDown]_vars /\ WF_clock(TimerFair) /\ WF_clock(ResumeFair)

\* fork, exit, sleep, wake_up and kill of one process while the timer keeps
\* ticking
NextTurn ==
    \/ Budget(MaxTurnSteps) /\ Fork(TRUE)
    \/ Budget(MaxTurnSteps) /\ Exit(0)
    \/ \E pid \in 1 .. MaxPid : Budget(MaxTurnSteps) /\ Kill(pid, SIGTERM)
    \/ \E event \in SleepEvents : Budget(MaxTurnSteps) /\ Sleep(event)
    \/ \E event \in SleepEvents : Free /\ WakeUp(event)
    \/ Fair /\ TimerTick
    \/ Fair /\ Resume

SpecTurn == Init /\ [][NextTurn]_vars /\ WF_clock(TimerFair) /\ WF_clock(ResumeFair)

\* fork, exit, wait and kill with arguments in and out of range; last_call
\* follows wait and kill
InvalidWaitPids == {0, -2}
InvalidSignals == {-1, TOTAL_SIGNALS}

NextCall ==
    \/ Budget(MaxCallSteps) /\ Fork(TRUE)
    \/ Budget(MaxCallSteps) /\ Exit(0)
    \/ \E pid \in WaitPids \cup InvalidWaitPids, options \in {0, WNOHANG} : Budget(MaxCallSteps) /\ WaitCall(pid, options)
    \/ \E pid \in KillPids, signal \in {SIGTERM} \cup InvalidSignals : Budget(MaxCallSteps) /\ KillCall(pid, signal)
    \/ Free /\ TimerTick
    \/ Free /\ Resume

SpecCall == Init /\ [][NextCall]_vars

\* open_file and close_file with any path and any int fd, fork, exit and
\* wait(-1); last_call follows open_file and close_file
CloseFds == {-1} \cup Fds \cup {MAX_OPEN_FILES}

Beyond(fd) == IF fd \in Fds \/ fd < 0 THEN {NULL} ELSE {NULL} \cup Entries

NextFd ==
    \/ \E pathname \in Paths : Budget(MaxFdSteps) /\ OpenCall(pathname)
    \/ \E fd \in CloseFds : \E beyond \in Beyond(fd) : Budget(MaxFdSteps) /\ CloseCall(fd, beyond)
    \/ Budget(MaxFdSteps) /\ Fork(TRUE)
    \/ Budget(MaxFdSteps) /\ Exit(0)
    \/ \E options \in {0, WNOHANG} : Budget(MaxFdSteps) /\ Wait(-1, options)
    \/ Free /\ TimerTick
    \/ Free /\ Resume

SpecFd == Init /\ [][NextFd]_vars

\* sleep, wake_up and kill of one process with an ignored or a terminating
\* signal, fork, exit and wait(-1); last_call follows kill
NextIntr ==
    \/ Budget(MaxIntrSteps) /\ Fork(TRUE)
    \/ Budget(MaxIntrSteps) /\ Exit(0)
    \/ Budget(MaxIntrSteps) /\ Wait(-1, 0)
    \/ \E event \in SleepEvents : Budget(MaxIntrSteps) /\ Sleep(event)
    \/ \E pid \in 1 .. MaxPid, signal \in {SIGCHLD, SIGTERM} : Budget(MaxIntrSteps) /\ KillCall(pid, signal)
    \/ \E event \in SleepEvents : Free /\ WakeUp(event)
    \/ Free /\ TimerTick
    \/ Free /\ Resume

SpecIntr == Init /\ [][NextIntr]_vars

\* open_file, fork, wait, exit and the hang-up kill(-1, SIGHUP); last_call
\* follows kill
NextHup ==
    \/ Budget(MaxHupSteps) /\ Open(0)
    \/ Budget(MaxHupSteps) /\ Fork(TRUE)
    \/ \E options \in {0, WNOHANG} : Budget(MaxHupSteps) /\ Wait(-1, options)
    \/ Budget(MaxHupSteps) /\ Exit(0)
    \/ Budget(MaxHupSteps) /\ KillCall(-1, SIGHUP)
    \/ Free /\ TimerTick
    \/ Free /\ Resume

SpecHup == Init /\ [][NextHup]_vars

\* sleep and wake_up on a device event, wait(-1) sleeping on ZOMBIE_CLEANUP,
\* fork, exit and kill of one process with an ignored signal; last_call
\* follows wake_up
NextWake ==
    \/ Budget(MaxWakeSteps) /\ Fork(TRUE)
    \/ Budget(MaxWakeSteps) /\ Exit(0)
    \/ Budget(MaxWakeSteps) /\ Wait(-1, 0)
    \/ \E event \in SleepEvents : Budget(MaxWakeSteps) /\ Sleep(event)
    \/ \E pid \in 1 .. MaxPid : Budget(MaxWakeSteps) /\ Kill(pid, SIGCHLD)
    \/ \E event \in SleepEvents : Free /\ WakeUpCall(event)
    \/ Free /\ TimerTick
    \/ Free /\ Resume

SpecWake == Init /\ [][NextWake]_vars

\* the broadcasts kill(0, sig) and kill(-1, sig) with an ignored signal, the
\* terminating signal and the hang-up, among fork, exit and wait(-1);
\* last_call follows kill
NextKill ==
    \/ Budget(MaxKillSteps) /\ Fork(TRUE)
    \/ Budget(MaxKillSteps) /\ Exit(0)
    \/ Budget(MaxKillSteps) /\ Wait(-1, 0)
    \/ \E pid \in {0, -1}, signal \in {SIGHUP, SIGTERM, SIGCHLD} : Budget(MaxKillSteps) /\ KillCall(pid, signal)
    \/ Free /\ TimerTick
    \/ Free /\ Resume

SpecKill == Init /\ [][NextKill]_vars

\* fork with both outcomes of copy_uvm, open_file, exit and wait(-1);
\* last_call follows fork
NextFork ==
    \/ \E copy_ok \in BOOLEAN : Budget(MaxForkSteps) /\ ForkCall(copy_ok)
    \/ Budget(MaxForkSteps) /\ Open(0)
    \/ Budget(MaxForkSteps) /\ Exit(0)
    \/ \E options \in {0, WNOHANG} : Budget(MaxForkSteps) /\ Wait(-1, options)
    \/ Free /\ TimerTick
    \/ Free /\ Resume

SpecFork == Init /\ [][NextFork]_vars

\* the foreground process across fork, exit, wait(-1) and the hang-up
\* kill(-1, SIGHUP)
NextFg ==
    \/ Budget(MaxFgSteps) /\ Fork(TRUE)
    \/ Budget(MaxFgSteps) /\ Exit(0)
    \/ Budget(MaxFgSteps) /\ Wait(-1, 0)
    \/ Budget(MaxFgSteps) /\ Kill(-1, SIGHUP)
    \/ Free /\ TimerTick
    \/ Free /\ Resume

SpecFg == Init /\ [][NextFg]_vars

\* exec of an existing or a missing file, with and without the "&" argument
\* and with both outcomes of the read, among open_file, close_file, fork,
\* exit and wait(-1); last_call follows exec
NextExec ==
    \/ \E name \in Paths, amp \in BOOLEAN, read_ok \in BOOLEAN : Budget(MaxExecSteps) /\ ExecCall(name, amp, read_ok)
    \/ \E pathname \in Paths : Budget(MaxExecSteps) /\ Open(pathname)
    \/ \E fd \in Fds : Budget(MaxExecSteps) /\ Close(fd)
    \/ Budget(MaxExecSteps) /\ Fork(TRUE)
    \/ Budget(MaxExecSteps) /\ Exit(0)
    \/ Budget(MaxExecSteps) /\ Wait(-1, 0)
    \/ Free /\ TimerTick
    \/ Free /\ Resume

SpecExec == Init /\ [][NextExec]_vars

\* init in its loop of src/user/init/main.c:40-52: whenever it runs in user
\* mode it calls wait(-1) again
InitWaits == pc.curr_process = 1 /\ Wait(-1, 0)

\* init forks and then only waits; the other processes fork, exit and wait
\* for any child or for one pid; the timer interrupts every process but init,
\* which calls wait as soon as it is back in user mode
NextZombie ==
    \/ Budget(MaxZombieSteps) /\ Fork(TRUE)
    \/ Budget(MaxZombieSteps) /\ pc.curr_process # 1 /\ Exit(0)
    \/ \E pid \in WaitPids, options \in {0, WNOHANG} : Budget(MaxZombieSteps) /\ pc.curr_process # 1 /\ Wait(pid, options)
    \/ Fair /\ InitWaits
    \/ Fair /\ pc.curr_process # 1 /\ TimerTick
    \/ Fair /\ Resume

\* The steps of NextZombie that flip clock are init's wait(-1), taken from a
\* state where init runs in user mode, the TimerTick steps, taken from a
\* state where another process can be interrupted, and the Resume steps.
InitWaitFair == UserMode /\ pc.curr_process = 1 /\ clock' = 1 - clock

TimerOthersFair == Interruptible /\ pc.curr_process # 1 /\ clock' = 1 - clock

\* init repeats wait(-1), the timer keeps interrupting, and a process that
\* is switched in goes on
SpecZombie == Init /\ [][NextZombie]_vars /\ WF_clock(InitWaitFair) /\ WF_clock(TimerOthersFair) /\ WF_clock(ResumeFair)

\* ------------------------------------------------------------ properties
Live(i) == process_table[i].state # "UNUSED"

States(st) == {i \in Slots : process_table[i].state = st}

\* C1: no two process-table slots whose state is not UNUSED hold the same
\* pid, after any sequence of fork, exit, wait and kill.
C1_PidUnique == \A i, j \in Slots : (i # j /\ Live(i) /\ Live(j)) => process_table[i].pid # process_table[j].pid

\* C2: between kernel operations exactly one PCB has state RUNNING and it is
\* the one get_curr_process() returns.
C2_OneRunning == States("RUNNING") = {get_curr_process}

C2_Witness == get_curr_process \notin {0, 1} /\ States("SLEEP") # {} /\ last_schedule.ran

\* C3: a PCB is on ready_queue iff its state is READY and its pid is not 0,
\* and it is on wait_list iff its state is SLEEP.
C3_QueueState == \A i \in Slots :
    /\ contains(pc.ready_que, i) <=> (process_table[i].state = "READY" /\ process_table[i].pid # 0)
    /\ contains(pc.wait_list, i) <=> process_table[i].state = "SLEEP"

\* a sleeper that kill moved to the ready queue: its event is still set
C3_Witness == \E i \in UserSlots : contains(pc.ready_que, i) /\ process_table[i].event = DEV_EVENT /\ process_table[i].signals # {} /\ process_table[i].kpc = "sleep"

\* C4: a PCB is on zombie_list iff its state is KILLED, and no PCB is linked
\* on more than one of ready_queue, wait_list and zombie_list.
C4_ZombieList == \A i \in Slots :
    /\ contains(pc.zombies, i) <=> process_table[i].state = "KILLED"
    /\ Cardinality({i} \cap Range(pc.ready_que)) + Cardinality({i} \cap Range(pc.wait_list)) + Cardinality({i} \cap Range(pc.zombies)) <= 1

\* C5: the idle PCB (slot 0) is never UNUSED and never on ready_queue, and a
\* run of schedule() selects it iff the signal checks at the head of the
\* queue left no PCB on ready_queue.
C5_Idle ==
    /\ process_table[0].state # "UNUSED"
    /\ ~contains(pc.ready_que, 0)
    /\ last_schedule.ran => ((get_curr_process = 0) <=> (last_schedule.survivors = <<>>))

\* the idle process runs because a signal terminated the only ready process
C5_Witness == last_schedule.ran /\ get_curr_process = 0 /\ empty(pc.ready_que) /\ \E i \in UserSlots : process_table[i].state = "KILLED" /\ process_table[i].status % 128 # 0

RECURSIVE SumRefs(_)
SumRefs(S) == IF S = {} THEN 0 ELSE global_file_table[CHOOSE e \in S : TRUE].ref_count + SumRefs(S \ {CHOOSE e \in S : TRUE})

EntriesOf(n) == {e \in Entries : global_file_table[e].inode = n}

FdSlots(e) == {<<p, i>> \in Slots \X Fds : Live(p) /\ process_table[p].fd_table[i] = e}

\* C7: the ref_count of each open-file entry is the number of fd_table slots
\* of PCBs that are not UNUSED that point at the entry.
C7_EntryRefSlots == \A e \in Entries : global_file_table[e].ref_count = Cardinality(FdSlots(e))

\* C8: every non-null fd of a PCB that is not UNUSED points at an entry with
\* ref_count >= 1 and a non-null inode.
C8_FdLive == \A p \in Slots, i \in Fds : (Live(p) /\ process_table[p].fd_table[i] # NULL) => (global_file_table[process_table[p].fd_table[i]].ref_count >= 1 /\ global_file_table[process_table[p].fd_table[i]].inode # NULL)

ForkOK(copy_ok) == Fork(copy_ok) /\ fork(Kernel, copy_ok).ret >= 1

ParentTable == process_table[get_curr_process].fd_table

\* C9: right after a successful fork the child's fd_table[i] is null exactly
\* when the parent's is, and every non-null slot of the child points at the
\* entry the parent's slot i points at.
C9_ForkFds == [][\A copy_ok \in BOOLEAN : ForkOK(copy_ok) => \A i \in Fds :
    /\ (process_table'[pc.curr_process].fd_table[i] = NULL) <=> (process_table'[find_unused_slot(process_table)].fd_table[i] = NULL)
    /\ process_table'[find_unused_slot(process_table)].fd_table[i] # NULL => process_table'[find_unused_slot(process_table)].fd_table[i] = process_table'[pc.curr_process].fd_table[i]]_vars

\* a child admitted by fork whose parent had both fds open
C9_Witness == \E c \in UserSlots : process_table[c].state = "READY" /\ process_table[c].ppid = process_table[get_curr_process].pid /\ process_table[c].fd_table = ParentTable /\ \A i \in Fds : ParentTable[i] # NULL

FdCount(e) == Cardinality({i \in Fds : ParentTable[i] = e})

InodeFdCount(n) == Cardinality({i \in Fds : ParentTable[i] # NULL /\ global_file_table[ParentTable[i]].inode = n})

EntryRefsForked == \A e \in Entries : global_file_table'[e].ref_count = global_file_table[e].ref_count + FdCount(e)

C12_NoLeak == \A e \in Entries : FdSlots(e) = {} => global_file_table[e].inode = NULL

Bits0to6(status) == status % 128

Bits8to15(status) == (status \div 256) % 256

\* C13: the status wait reports for a reaped process encodes only its own
\* termination: after exit(s) bits 8-15 are s & 0xff and bits 0-6 are 0;
\* after the default action of signal sig bits 0-6 are sig and bits 8-15 are 0.
C13_OwnStatus ==
    last_wait.reaped # NULL =>
        /\ life[last_wait.reaped].kind = "exit" => (Bits8to15(last_wait.wstatus) = life[last_wait.reaped].code % 256 /\ Bits0to6(last_wait.wstatus) = 0)
        /\ life[last_wait.reaped].kind = "signal" => (Bits0to6(last_wait.wstatus) = life[last_wait.reaped].code % 128 /\ Bits8to15(last_wait.wstatus) = 0)

ForkedBy(q) == {c \in UserSlots : life[c].forker = q}

\* the process wait(-1, &s, 0) has just returned to forked one child, c, which
\* called exit(0) and was not reaped before this call
WaitedFor(c) ==
    /\ last_wait.waiter # NULL
    /\ last_wait.options = 0
    /\ process_table[last_wait.waiter].wpid = -1
    /\ ForkedBy(last_wait.waiter) = {c}
    /\ life[c].kind = "exit"
    /\ life[c].code = 0
    /\ (process_table[c].state = "KILLED" \/ last_wait.reaped = c)

\* C14: a process forks a child (fork returns r), the child calls exit(0) and
\* the parent calls wait(-1, &s, 0): wait returns r and bits 8-15 of s are 0,
\* whether the child exits before the parent enters wait or after.
C14_ForkExitWait == \A c \in UserSlots : WaitedFor(c) => (last_wait.ret = process_table[c].pid /\ Bits8to15(last_wait.wstatus) = 0)

\* the process in slot i exits in this step
Exits(i) == process_table[i].state \notin {"UNUSED", "KILLED"} /\ process_table'[i].state = "KILLED"

ExitingPids == {process_table[i].pid : i \in {j \in UserSlots : Exits(j)}}

\* C15: when a process p exits, every PCB that is not UNUSED and had ppid
\* p.pid has ppid 1 afterwards, and the ppid of every other PCB but p itself
\* is unchanged.
C15_Reparent == [][\A i \in UserSlots : (Live(i) /\ process_table'[i].state # "UNUSED" /\ ~Exits(i)) => process_table'[i].ppid = (IF process_table[i].ppid \in ExitingPids THEN 1 ELSE process_table[i].ppid)]_vars

\* a zombie that is not init, and a process it forked that now has ppid 1
C15_Witness == \E z, c \in UserSlots : z # 1 /\ process_table[z].state = "KILLED" /\ Live(c) /\ c # z /\ life[c].forker = z /\ process_table[c].ppid = 1

\* slot i was SLEEP when kill(pid, SIGTERM) reached it: it is READY on the
\* ready queue, off the wait list, with SIGTERM pending and has not run since,
\* or it terminated in the signal check
TermSleeper(i) ==
    \/ /\ process_table[i].state = "READY"
       /\ contains(pc.ready_que, i)
       /\ ~contains(pc.wait_list, i)
       /\ SIGTERM \in process_table[i].signals
    \/ /\ process_table[i].state \in {"KILLED", "UNUSED"}
       /\ life[i].kind = "signal"

\* the status wait writes for slot i has SIGTERM in its low 7 bits
ReportsTerm(i) == Bits0to6(life[i].status) = SIGTERM /\ (last_wait.reaped = i => Bits0to6(last_wait.wstatus) = SIGTERM)

\* C16 as stated: after kill(P, SIGTERM) to a sleeping P, P is on the ready
\* queue and off the wait list, terminates in the signal check of its next
\* dispatch, and wait reports a status whose low 7 bits are SIGTERM.
C16_Original == \A i \in UserSlots : life[i].woken = SIGTERM => (TermSleeper(i) /\ (process_table[i].state \in {"KILLED", "UNUSED"} => ReportsTerm(i)))

\* C16: after kill(P, SIGTERM) to a sleeping P, P is on the ready queue and off
\* the wait list and terminates in the signal check of its next dispatch; if
\* no SIGHUP is pending at that dispatch the signal it terminates by is
\* SIGTERM and wait reports a status whose low 7 bits are SIGTERM.
C16_SignalSleeper ==
    /\ [](\A i \in UserSlots : life[i].woken = SIGTERM => (TermSleeper(i) /\ (life[i].code = BitOr(128, SIGTERM) => ReportsTerm(i))))
    /\ [][\A i \in UserSlots : (life[i].woken = SIGTERM /\ process_table[i].state = "READY" /\ SIGHUP \notin process_table[i].signals /\ process_table'[i].state = "KILLED") => life'[i].code = BitOr(128, SIGTERM)]_vars

\* wait has released a process that kill(P, SIGTERM) took off the wait list
C16_Witness == \E i \in UserSlots : life[i].woken = SIGTERM /\ last_wait.reaped = i /\ last_wait.wstatus = SIGTERM

\* kill(-1, SIGTERM) has been issued: only the broadcast marks the idle process
Broadcast == SIGTERM \in process_table[0].signals

Active(i) == process_table[i].state \in {"READY", "RUNNING", "SLEEP"}

\* the user processes that do not have SIGTERM pending
Unmarked == {i \in UserSlots : Active(i) /\ SIGTERM \notin process_table[i].signals}

\* every sleeping user process sleeps in wait
SleepInWait == \A i \in UserSlots : process_table[i].state = "SLEEP" => process_table[i].event = ZOMBIE_CLEANUP

\* every user process has exited, both queues are empty and shutdown is set
Down == (\A i \in UserSlots : ~Active(i)) /\ empty(pc.ready_que) /\ empty(pc.wait_list) /\ shutdown

TickStep == Interruptible /\ ~empty(pc.ready_que) /\ steps' = steps /\ last_schedule'.ran

\* the ready queue after the preempted process is appended
Requeued == IF process_table[pc.curr_process].pid # 0 THEN push_back(pc.ready_que, pc.curr_process) ELSE pc.ready_que

\* C18: round robin: a call of trigger_scheduler that finds no signal pending
\* on the head of ready_que dispatches that head and appends the preempted
\* process, if its pid is not 0, at the tail; so P1, P2, P3 on the queue are
\* dispatched in that order and then P1 again.
C18_RoundRobin == [][(TickStep /\ process_table[front(pc.ready_que)].signals = {}) => (pc'.curr_process = front(pc.ready_que) /\ process_table'[front(pc.ready_que)].state = "RUNNING" /\ pc'.ready_que = pop_front(Requeued))]_vars

\* schedule(), called by trigger_scheduler, found P1, P2, P3 on the queue in
\* that order and no signal pending: P1 runs and P2, P3 are left in that order
C18_Witness == pc.curr_process = 1 /\ pc.ready_que = <<2, 3>> /\ last_schedule.ran /\ last_schedule.survivors = <<1, 2, 3>> /\ (\A i \in UserSlots : process_table[i].signals = {})

\* C19: no starvation: while the timer keeps ticking, every process on
\* ready_que eventually is the RUNNING process, unless a signal terminates it,
\* whatever the other processes do.
C19_NoStarvation == \A i \in UserSlots : contains(pc.ready_que, i) ~> (process_table[i].state = "RUNNING" \/ (process_table[i].state = "KILLED" /\ life[i].kind = "signal"))

\* P3 runs after it has waited behind P1 and P2, which are back on the queue
C19_Witness == pc.curr_process = 3 /\ process_table[3].state = "RUNNING" /\ pc.ready_que = <<1, 2>> /\ clock = 1 /\ last_schedule.ran /\ last_schedule.survivors = <<3, 1, 2>>

\* the ppid of every PCB that is not UNUSED is 1 or the pid of a PCB that is
\* not UNUSED (the idle process, pid 0, for init)
ParentInvariant == \A i \in Slots : Live(i) => (process_table[i].ppid = 1 \/ (\E j \in Slots : Live(j) /\ process_table[j].pid = process_table[i].ppid))

\* no PCB that is not UNUSED has the pid of the process wait released as ppid
NoChildOfReaped == last_wait.reaped # NULL => (\A i \in Slots : Live(i) => process_table[i].ppid # process_table[last_wait.reaped].pid)

\* C20: the ppid of every PCB that is not UNUSED is 1 or the pid of a PCB that
\* is not UNUSED, and a process that wait releases leaves no survivor whose
\* ppid names it.
C20_ParentLive == ParentInvariant /\ NoChildOfReaped

\* C21: wait(pid, ...) with pid = 0 or pid < -1 returns -1 and changes nothing:
\* the process table (the caller's wpid in it), the pid counter, the current
\* process and the three lists are what they were before the call.
C21_WaitInvalid == [][(last_call'.op = "wait" /\ (last_call'.a = 0 \/ last_call'.a < -1)) => (last_call'.ret = -1 /\ UNCHANGED <<process_table, pid_num, pc, shutdown, global_file_table, inode_table, halted>>)]_vars

\* wait(-2, ...) has returned -1 to a caller that an earlier wait(-1, ...) left
\* with wpid = -1 and that has a zombie child on the zombie list
C21_Witness == last_call.op = "wait" /\ last_call.a < -1 /\ last_call.ret = -1 /\ pc.curr_process = last_call.caller /\ process_table[last_call.caller].wpid = -1 /\ \E z \in UserSlots : contains(pc.zombies, z) /\ process_table[z].ppid = process_table[last_call.caller].pid

\* the signals and the state of every PCB
SignalsAndStates(pt) == [i \in Slots |-> <<pt[i].signals, pt[i].state>>]

\* C24: kill(pid, sig) with sig < 0 or sig >= TOTAL_SIGNALS returns -1 for
\* every pid and leaves the signals and the state of every PCB, the three lists
\* and the pid counter as they were.
C24_KillRange == [][(last_call'.op = "kill" /\ (last_call'.b < 0 \/ last_call'.b >= TOTAL_SIGNALS)) => (last_call'.ret = -1 /\ SignalsAndStates(process_table') = SignalsAndStates(process_table) /\ pc'.ready_que = pc.ready_que /\ pc'.wait_list = pc.wait_list /\ pc'.zombies = pc.zombies /\ pid_num' = pid_num)]_vars

\* kill(-1, TOTAL_SIGNALS) has returned -1 while another process sleeps in wait
C24_Witness == last_call.op = "kill" /\ last_call.a = -1 /\ last_call.b = TOTAL_SIGNALS /\ last_call.ret = -1 /\ (\E i \in UserSlots : i # last_call.caller /\ process_table[i].state = "SLEEP" /\ process_table[i].signals = {}) /\ pid_num > 2

\* the current process has no child, live or zombie, that wait(pid, ...) matches
NoMatchingChild(pid) == ~\E i \in UserSlots : process_table[i].state # "UNUSED" /\ process_table[i].ppid = process_table[pc.curr_process].pid /\ (pid = -1 \/ process_table[i].pid = pid)

\* C22: wait(pid, ...) returns -1 and releases no slot whenever the caller has
\* no live or zombie child that pid matches; for pid > 0 this holds too when a
\* process with that pid exists and its ppid is not the caller's pid, so that
\* no process reaps a zombie that is not its child.
C22_NoChild == [][(last_call'.op = "wait" /\ last_call'.a \in WaitPids /\ NoMatchingChild(last_call'.a)) => (last_call'.ret = -1 /\ \A i \in UserSlots : process_table'[i].state = "UNUSED" => process_table[i].state = "UNUSED")]_vars

\* a zombie that wait(pid, ...) of the current process matches is on the zombie list
MatchingZombie(pid) == \E i \in Range(pc.zombies) : IF pid = -1 THEN process_table[i].ppid = process_table[pc.curr_process].pid ELSE process_table[i].pid = pid

\* C23: wait with WNOHANG never puts the caller to sleep: the caller is still
\* the RUNNING current process when the call is over, and if it has a matching
\* child and no matching zombie is on the zombie list the call returns 0 and
\* changes no process, list or reference count, only the caller's wpid.
C23_NoHang == [][(last_call'.op = "wait" /\ last_call'.a \in WaitPids /\ last_call'.b = WNOHANG) => (pc'.curr_process = pc.curr_process /\ process_table'[pc.curr_process].state = "RUNNING" /\ process_table'[pc.curr_process].kpc = "user" /\ ((~NoMatchingChild(last_call'.a) /\ ~MatchingZombie(last_call'.a)) => (last_call'.ret = 0 /\ process_table' = [process_table EXCEPT ![pc.curr_process].wpid = last_call'.a] /\ UNCHANGED <<pc, pid_num, global_file_table, inode_table, halted>>)))]_vars

\* wait(-1, WNOHANG) has returned 0 to a process whose only child is ready, while
\* a zombie that is not its child waits on the zombie list
C23_Witness == last_call.op = "wait" /\ last_call.a = -1 /\ last_call.b = WNOHANG /\ last_call.ret = 0 /\ pc.curr_process = last_call.caller /\ process_table[last_call.caller].wpid = -1 /\ ~empty(pc.zombies) /\ \E c \in UserSlots : process_table[c].state = "READY" /\ process_table[c].ppid = process_table[last_call.caller].pid

\* fd is not an open descriptor of the current process
InvalidFd(fd) == fd < 0 \/ fd >= MAX_OPEN_FILES \/ process_table[pc.curr_process].fd_table[fd] = NULL

\* C25: close_file(process, fd) with an invalid fd (negative, past the end of
\* fd_table, or a null slot) is a no-op: the fd tables, every open-file entry
\* and every inode ref_count are unchanged and the kernel does not fault.
C25_CloseInvalid == [][(last_call'.op = "close" /\ InvalidFd(last_call'.a)) => (UNCHANGED <<process_table, global_file_table, inode_table>> /\ ~halted')]_vars

\* why open_file fails: the current process has no null fd slot, no entry of
\* the file table is free (points at no inode), the root directory has no such file
OpenFails(pathname) == (\A i \in Fds : process_table[pc.curr_process].fd_table[i] # NULL) \/ (\A e \in Entries : global_file_table[e].inode # NULL) \/ pathname \notin Inodes

\* fd is the lowest null slot of the caller; after the call it points at entry
\* e, free before, that now has ref_count 1 and the inode of the file, whose
\* ref_count went up by exactly 1; nothing else has changed
Opened(pathname, fd, e) ==
    /\ fd \in Fds /\ process_table[pc.curr_process].fd_table[fd] = NULL
    /\ \A i \in Fds : i < fd => process_table[pc.curr_process].fd_table[i] # NULL
    /\ e \in Entries /\ global_file_table[e].inode = NULL
    /\ process_table' = [process_table EXCEPT ![pc.curr_process].fd_table[fd] = e]
    /\ global_file_table' = [global_file_table EXCEPT ![e] = [inode |-> pathname, ref_count |-> 1]]
    /\ inode_table' = [inode_table EXCEPT ![pathname].ref_count = @ + 1]

\* C26: open_file(process, path) either fails with -1 (no null fd slot, no free
\* entry, or file not found) and leaves the fd tables, the file table and the
\* inode ref_counts unchanged, or returns the lowest fd whose slot was null, now
\* pointing at an entry that was free and has ref_count 1, the ref_count of its
\* inode being 1 more than before.
C26_Open == [][last_call'.op = "open" =>
    IF OpenFails(last_call'.a) THEN last_call'.ret = -1 /\ UNCHANGED <<process_table, global_file_table, inode_table>>
    ELSE last_call'.ret \in Fds /\ Opened(last_call'.a, last_call'.ret, process_table'[pc.curr_process].fd_table[last_call'.ret])]_vars

\* open_file has returned fd 1 to a process that holds another entry of the same
\* file at fd 0, and the inode counts both
C26_Witness == last_call.op = "open" /\ last_call.ret = 1 /\ pc.curr_process = last_call.caller /\ process_table[last_call.caller].fd_table[0] # NULL /\ process_table[last_call.caller].fd_table[1] # NULL /\ process_table[last_call.caller].fd_table[0] # process_table[last_call.caller].fd_table[1] /\ global_file_table[process_table[last_call.caller].fd_table[1]] = [inode |-> last_call.a, ref_count |-> 1] /\ inode_table[last_call.a].ref_count = 2

\* the step is kill(pid, SIGCHLD) for the pid of a process t that sleeps
KillsSleeper(t) == last_call'.op = "kill" /\ last_call'.b = SIGCHLD /\ last_call'.ret = 0 /\ t = get_process(process_table, last_call'.a) /\ process_table[t].state = "SLEEP"

\* t has left the wait list for the tail of the ready queue, its event kept
Requeues(t) == pc'.wait_list = remove(pc.wait_list, t) /\ pc'.ready_que = push_back(pc.ready_que, t) /\ process_table'[t].state = "READY" /\ process_table'[t].event = process_table[t].event /\ SIGCHLD \in process_table'[t].signals

\* the current process has been switched in inside sleep(E) or wait, with its
\* event still set and its signals checked: kill took it off the wait list and
\* wake_up(E) has not been called since
Interrupted == Resumable /\ process_table[pc.curr_process].event # NONE /\ process_table[pc.curr_process].signals = {}

\* the step leaves the process that was current in user mode, its call over
Returns == process_table'[pc.curr_process].kpc = "user" /\ process_table'[pc.curr_process].state \in {"RUNNING", "READY"}

\* the step leaves the process that was current asleep on the same event, on
\* the wait list, another process running
SleepsAgain == process_table'[pc.curr_process].state = "SLEEP" /\ process_table'[pc.curr_process].event = process_table[pc.curr_process].event /\ contains(pc'.wait_list, pc.curr_process) /\ pc'.curr_process # pc.curr_process

\* the call the process that was current is in has not returned
StillInside == process_table'[pc.curr_process].kpc = process_table[pc.curr_process].kpc

\* C27, as the spec states it: a process asleep on E that kill hits with a
\* signal that does not terminate it moves from the wait list to the tail of
\* the ready queue at once, and when it is next dispatched its sleep(E) returns
\* to its caller although wake_up(E) was not called.
C27_Original == [][(\A t \in UserSlots : KillsSleeper(t) => Requeues(t)) /\ ((Interrupted /\ process_table[pc.curr_process].kpc = "sleep") => Returns)]_vars

\* C27, amended: the process moves from the wait list to the tail of the ready
\* queue at once, its event kept; when it is next dispatched and wake_up(E) has
\* not been called, the call it sleeps in does not return, and a process inside
\* sleep(E) is put back to sleep on E, on the wait list.
C27_SleepsAgain == [][(\A t \in UserSlots : KillsSleeper(t) => Requeues(t)) /\ (Interrupted => StillInside) /\ ((Interrupted /\ process_table[pc.curr_process].kpc = "sleep") => SleepsAgain)]_vars

\* a process that kill(pid, SIGCHLD) took off the wait list sleeps on DEV_EVENT
\* again, inside the same sleep call, its signal consumed
C27_Witness == \E t \in UserSlots : life[t].woken = SIGCHLD /\ process_table[t].state = "SLEEP" /\ process_table[t].event = DEV_EVENT /\ process_table[t].kpc = "sleep" /\ process_table[t].signals = {} /\ contains(pc.wait_list, t) /\ last_schedule.ran /\ last_call.op = "none" /\ steps = 3

\* the zombies kill(-1, SIGHUP) of the current process releases
Unattended == {z \in UserSlots : z >= 2 /\ process_table[z].state = "KILLED" /\ process_table[z].ppid # 1 /\ process_table[z].pid # process_table[pc.curr_process].pid}

\* the fd slots of those zombies that point at entry e, at an entry of inode n
ZombieSlots(e) == {zf \in Unattended \X Fds : process_table[zf[1]].fd_table[zf[2]] = e}

ZombieInodeSlots(n) == {zf \in Unattended \X Fds : process_table[zf[1]].fd_table[zf[2]] # NULL /\ global_file_table[process_table[zf[1]].fd_table[zf[2]]].inode = n}

\* C28: when kill(-1, SIGHUP) releases an unattended zombie z (KILLED, ppid
\* not 1) it decrements the ref_count of exactly the entries, and of their
\* inodes, that the non-null slots of z's own fd_table reference, once per
\* slot, and touches no entry that only other processes hold.
C28_HupRelease == [][(last_call'.op = "kill" /\ last_call'.a = -1 /\ last_call'.b = SIGHUP /\ Unattended # {}) =>
    (/\ ~halted'
     /\ \A z \in Unattended : process_table'[z].state = "UNUSED"
     /\ \A e \in Entries : global_file_table'[e].ref_count = global_file_table[e].ref_count - Cardinality(ZombieSlots(e))
     /\ \A n \in Inodes : inode_table'[n].ref_count = inode_table[n].ref_count - Cardinality(ZombieInodeSlots(n)))]_vars

\* the status arguments of exit: those of the system call and those of the
\* default handlers
ExitArguments == ExitStatuses \cup {BitOr(128, SIGHUP), BitOr(128, SIGTERM)}

\* C29: exit(p, status, from_handler) on a PCB that is UNUSED or KILLED
\* changes nothing (status, ppid, lists, the parent's signals, fg_process) and
\* does not call schedule(); a process that exits twice, a second terminating
\* signal being served after the first, is left as its first exit left it:
\* the status of the first signal, one node on the zombie list.
C29_ExitTwice ==
    /\ \A p \in Slots : process_table[p].state \in {"UNUSED", "KILLED"} => \A status \in ExitArguments, sig_handler_req \in BOOLEAN : exit(Kernel, p, status, sig_handler_req) = Kernel
    /\ \A p \in UserSlots : process_table[p].state = "KILLED" => (process_table[p].status = life[p].status /\ Len(SelectSeq(pc.zombies, LAMBDA z : z = p)) <= 1)

\* a sleeper hit by SIGTERM and then by SIGHUP has been dispatched: the signal
\* check served SIGHUP, which made it exit, and then SIGTERM, whose exit found
\* it KILLED
C29_Witness == \E p \in UserSlots : life[p].woken = SIGTERM /\ process_table[p].state = "KILLED" /\ process_table[p].signals = {} /\ life[p].kind = "signal" /\ life[p].code = BitOr(128, SIGHUP) /\ process_table[p].status % 128 = SIGHUP /\ pc.zombies = <<p>>

\* the parent of the process in slot i, as exit looks it up (line 356)
ParentOf(i) == get_process(process_table, process_table[i].ppid)

\* the parent has abandoned the process in slot i: it waits for another pid or
\* for none (wpid as the exit finds it: a wait of the parent that goes to
\* sleep in the step has stored it before the exit)
Abandoned(i, parent) == process_table'[parent].wpid >= 0 /\ process_table'[parent].wpid # process_table[i].pid

\* what exit of the process in slot i does about its parent; the signal check
\* serves SIGCHLD at once when the step dispatches the parent
InformsParent(i, parent) ==
    IF parent # NULL /\ process_table[parent].state # "KILLED"
    THEN /\ (pc'.curr_process # parent => SIGCHLD \in process_table'[parent].signals)
         /\ process_table'[i].ppid = (IF Abandoned(i, parent) THEN 1 ELSE process_table[i].ppid)
    ELSE process_table'[i].ppid = 1

\* C30: when p exits and its parent exists and is not KILLED, the parent gets
\* SIGCHLD pending, and p.ppid becomes 1 exactly when the parent's wpid is >= 0
\* and differs from p.pid; with wpid -1 or p.pid the ppid is kept; when the
\* parent does not exist or is KILLED, p.ppid becomes 1.  (Stated of the steps
\* in which one process exits, so that the parent is as the step found it.)
C30_ExitParent == [][\A i \in UserSlots : (Exits(i) /\ \A j \in UserSlots \ {i} : ~Exits(j)) => InformsParent(i, ParentOf(i))]_vars

\* the PCBs of a list whose event is, or is not, the event
OnEvent(list, event) == SelectSeq(list, LAMBDA s : process_table[s].event = event)
OffEvent(list, event) == SelectSeq(list, LAMBDA s : process_table[s].event # event)

\* C31: after wake_up(e) no PCB on wait_list has event e; every PCB that was
\* on wait_list with event e is READY with event NONE and has been appended
\* to the tail of ready_queue in the order it had on wait_list; the PCBs on
\* wait_list with another event keep their state, event and relative order.
C31_WakeUp == [][last_call'.op = "wake_up" =>
    /\ \A i \in Range(pc'.wait_list) : process_table'[i].event # last_call'.a
    /\ pc'.ready_que = pc.ready_que \o OnEvent(pc.wait_list, last_call'.a)
    /\ \A i \in Range(OnEvent(pc.wait_list, last_call'.a)) : process_table'[i].state = "READY" /\ process_table'[i].event = NONE
    /\ pc'.wait_list = OffEvent(pc.wait_list, last_call'.a)
    /\ \A i \in Range(pc'.wait_list) : process_table'[i].state = process_table[i].state /\ process_table'[i].event = process_table[i].event]_vars

\* wake_up has just moved two sleepers to the ready queue, which was empty
\* (the idle process runs), and left a waiter on another event behind
C31_Witness == last_call.op = "wake_up" /\ pc.curr_process = 0 /\ Len(pc.ready_que) = 2 /\ pc.wait_list # <<>> /\ \A i \in Range(pc.wait_list) : process_table[i].event = ZOMBIE_CLEANUP

\* process i is inside a sleep call
Sleeper(i) == process_table[i].kpc = "sleep"

\* C32: no lost wake-up and no early return: sleep(e) returns to its caller
\* only after a wake_up(e) executed since the call began (the call returns
\* only with the event cleared, and inside the call only wake_up(e) clears
\* it); and wake_up(e) executed while the sleeper is on wait_list or, moved
\* by kill, on ready_queue with event still e clears the sleeper's event, so
\* that its sleep call returns at its next dispatch instead of sleeping again.
C32_NoLostWakeUp == [][\A i \in UserSlots :
    /\ (Sleeper(i) /\ process_table'[i].kpc = "user") => (process_table[i].event = NONE /\ pc.curr_process = i)
    /\ (process_table'[i].kpc = "sleep" /\ process_table'[i].event = NONE) => (Sleeper(i) /\ (process_table[i].event = NONE \/ (last_call'.op = "wake_up" /\ last_call'.a = process_table[i].event)))
    /\ (Sleeper(i) /\ last_call'.op = "wake_up" /\ process_table[i].event = last_call'.a) => (process_table'[i].kpc = "sleep" /\ process_table'[i].event = NONE /\ i \in Range(pc'.ready_que))
    /\ (Sleeper(i) /\ process_table[i].event = NONE /\ pc.curr_process = i) => (process_table'[i].kpc = "user" /\ pc'.curr_process = i /\ process_table'[i].state = "RUNNING")]_vars

\* wake_up has just cleared the event of a sleeper that kill had moved to
\* the ready queue, its signal still pending
C32_Witness == last_call.op = "wake_up" /\ \E i \in UserSlots : Sleeper(i) /\ process_table[i].event = NONE /\ i \in Range(pc.ready_que) /\ SIGCHLD \in process_table[i].signals

\* C33: the shutdown flag is false initially, becomes true only in a
\* schedule() call in which ready_queue and wait_list are both empty and the
\* idle PCB has SIGTERM pending (schedule then dispatches the idle process),
\* and once true is never reset; it is never set while any process is READY
\* or SLEEP.
C33_ShutdownFlag == ~shutdown /\ [][
    /\ shutdown => shutdown'
    /\ (~shutdown /\ shutdown') =>
        /\ empty(pc'.ready_que) /\ empty(pc'.wait_list)
        /\ SIGTERM \in process_table'[0].signals
        /\ pc'.curr_process = 0 /\ last_schedule' # last_schedule
        /\ \A i \in Slots : process_table'[i].state \notin {"READY", "SLEEP"}]_vars

\* the flag is set, both lists are empty, and a zombie is left in the table
C33_Witness == shutdown /\ empty(pc.ready_que) /\ empty(pc.wait_list) /\ pc.curr_process = 0 /\ (\A i \in Slots : process_table[i].state \notin {"READY", "SLEEP"}) /\ \E i \in UserSlots : process_table[i].state = "KILLED"

\* register x5 of the saved context of process i (0 without a context)
x5(i) == IF process_table[i].reg_context = <<>> THEN 0 ELSE process_table[i].reg_context[1].x5

\* C34: once shutdown is true, the transition in which the scheduler
\* switches into the idle process sets x5 = 1 in the idle process's saved
\* register context; x5 is never set to 1 in any process's context while
\* shutdown is false, nor for any process other than idle.
C34_NotifyIdle ==
    /\ [](\A i \in Slots : x5(i) = 1 => (i = 0 /\ shutdown))
    /\ [][(shutdown' /\ last_schedule'.ran /\ pc'.curr_process = 0) => process_table'[0].reg_context = <<[x5 |-> 1]>>]_vars

\* the scheduler has set the flag and switched into the idle process, whose
\* saved x5 is 1, with nothing left but zombies
C34_Witness == shutdown /\ last_schedule.ran /\ pc.curr_process = 0 /\ x5(0) = 1 /\ \A i \in UserSlots : x5(i) = 0 /\ process_table[i].state \in {"UNUSED", "KILLED", "INIT"}

\* the PCBs a broadcast of the current process is meant for: its children
\* for kill(0, sig); every process but itself and init for kill(-1, sig)
ChildrenOfSender == {i \in Slots : process_table[i].state \notin {"UNUSED", "KILLED"} /\ process_table[i].ppid = process_table[pc.curr_process].pid}
Others == {i \in Slots \ {0, 1, pc.curr_process} : process_table[i].state \notin {"UNUSED", "KILLED"}}

\* init and idle, marked by a system wide SIGTERM
Marked(pid, signal) == IF pid = -1 /\ signal = SIGTERM THEN {0, 1} ELSE {}

Targets(pid) == IF pid = 0 THEN ChildrenOfSender ELSE Others

\* the step is a broadcast kill; no other process carries the sender's pid
BroadcastKill == last_call'.op = "kill" /\ last_call'.a \in {0, -1} /\ last_call'.ret = 0 /\ \A i \in Slots \ {pc.curr_process} : Live(i) => process_table[i].pid # process_table[pc.curr_process].pid

\* bit signal is set on the PCBs of T and on no other
SetsBit(T, signal) == \A i \in Slots : process_table'[i].signals = IF i \in T THEN process_table[i].signals \cup {signal} ELSE process_table[i].signals

\* the sleepers of T are READY at the tail of the ready queue, off the wait list
MovesSleepers(T) == \A i \in T : process_table[i].state = "SLEEP" => (process_table'[i].state = "READY" /\ i \in Range(pc'.ready_que) /\ i \notin Range(pc'.wait_list))

C36_FailedFork == [][(last_call'.op = "fork" /\ last_call'.ret = -1) =>
    /\ \A i \in Slots : process_table'[i].state = process_table[i].state
    /\ pid_num' = pid_num
    /\ pc'.ready_que = pc.ready_que
    /\ pc'.fg_process = pc.fg_process
    /\ UNCHANGED <<global_file_table, inode_table>>]_vars

\* C37: in every reachable state fg_process is either null or points at a
\* PCB that is non-daemon and whose state is neither UNUSED nor KILLED.
C37_Foreground == pc.fg_process # NULL => (~process_table[pc.fg_process].daemon /\ process_table[pc.fg_process].state \notin {"UNUSED", "KILLED"})

\* C38: exec preserves the caller's identity and open files: if the program
\* file cannot be opened exec returns -1 with the process and file tables
\* unchanged; if it succeeds (returns 0) the process keeps its pid, ppid and
\* state, its fd_table is identical to that before the call, and every
\* open-file entry and inode ref_count equals its value before the call.
C38_Exec == [][last_call'.op = "exec" =>
    /\ last_call'.ret = -1 => UNCHANGED <<process_table, global_file_table, inode_table>>
    /\ (last_call'.ret = 0 /\ last_call'.b = 1) =>
        /\ process_table'[pc.curr_process].pid = process_table[pc.curr_process].pid
        /\ process_table'[pc.curr_process].ppid = process_table[pc.curr_process].ppid
        /\ process_table'[pc.curr_process].state = process_table[pc.curr_process].state
        /\ process_table'[pc.curr_process].fd_table = process_table[pc.curr_process].fd_table
        /\ \A e \in Entries : global_file_table'[e] = global_file_table[e]
        /\ \A n \in Inodes : inode_table'[n].ref_count = inode_table[n].ref_count]_vars

\* exec has just succeeded for a process that holds an open file: it runs on
\* with that descriptor and no other
C38_Witness == last_call.op = "exec" /\ last_call.ret = 0 /\ last_call.b = 1 /\ pc.curr_process = last_call.caller /\ process_table[last_call.caller].state = "RUNNING" /\ process_table[last_call.caller].fd_table[0] # NULL /\ process_table[last_call.caller].fd_table[1] = NULL /\ global_file_table[process_table[last_call.caller].fd_table[0]].ref_count = 1

\* C39: no permanent zombies: given that init repeatedly calls wait(-1) and
\* scheduling is fair, every process that reaches state KILLED is eventually
\* reaped (its slot returns to UNUSED).
C39_NoZombie == \A i \in UserSlots : process_table[i].state = "KILLED" ~> process_table[i].state = "UNUSED"

TypeOK ==
    /\ pc.curr_process \in Slots
    /\ \A i \in Slots : process_table[i].state \in {"UNUSED", "INIT", "READY", "RUNNING", "SLEEP", "KILLED"}

====
